---- MODULE Spec2Model ----
(***************************************************************************)
(* ScrollNet (vinci-scroll): the swipe / reaction / feedback pipeline.     *)
(*                                                                         *)
(* Spec         the interaction persistence path: the client's POST        *)
(*              /api/interactions, the Express route, recordInteraction    *)
(*              and the user_interactions table with its constraints.      *)
(* SpecClassify the gesture classifier of SwipeVideoPlayer's onTouchEnd,   *)
(*              applied to every gesture vector of a bounded square.       *)
(* SpecCadence  one mounted client: Home (cadence 10 or 5), VideoFeed and  *)
(*              SwipeVideoPlayer, with reactions in flight and deferred    *)
(*              advances, on a feed of two videos served by the API, over  *)
(*              more than two cadence windows.                             *)
(* SpecClient   the same client on the five mock videos with cadence 5,    *)
(*              over the first videos consumed.                            *)
(* SpecFeed     public.videos under uploads, updates and soft deletes, and *)
(*              the pages GET /api/videos answers.                         *)
(* SpecCursor   VideoFeed loading its page and the viewer advancing.       *)
(* SpecFeedback the feedback prompt: FeedbackModal, POST /api/feedback and *)
(*              public.feedback, with the viewer reacting by swipes.       *)
(* SpecRapid    the client of SpecClient with a viewer who reacts but never *)
(*              swipes up.                                                 *)
(* SpecSession  the client with Home's welcome overlay, login and logout,   *)
(*              for guests and signed-in users.                            *)
(* SpecUpload   one bulk upload request, batch or directory, with its      *)
(*              upload session; SpecUploadLive adds that the handler runs  *)
(*              to its answer.                                             *)
(* SpecConcurrent  the interaction route handling two requests that are in *)
(*              flight at the same time.                                   *)
(***************************************************************************)
EXTENDS Integers, Naturals, Sequences, FiniteSets, Bags, TLC

VARIABLES
    user,               \* per client session: the signed-in auth user, or NoUser
    net,                \* POST /api/interactions requests in flight
    sent,               \* number of requests sent so far
    user_interactions,  \* rows of public.user_interactions
    clock,              \* the server's Date clock, one tick per handled request
    last,               \* the request handled last and what the server answered
    resolved,           \* history: anonymous ids generated for each session
    touch,              \* the gesture vector [dx, dy] of a touch, start to release
    emitted,            \* what onTouchEnd made of it
    cadence,            \* Home: the N of "every N videos" (10 or 5)
    videos,             \* VideoFeed state: the loaded feed
    videosWatched,      \* Home state
    showFeedback,       \* Home state
    feedbackVideo,      \* Home state
    currentVideoIndex,  \* SwipeVideoPlayer state
    activeIndex,        \* the Swiper instance's activeIndex
    timers,             \* pending setTimeout(() => goToNextVideo(), 300), oldest first,
                        \* each with the currentVideoIndex its closure captured
    pending,            \* bag of handleVideoReaction calls awaiting their fetch, each
                        \* with the videosWatched its onVideoWatched closure captured
    events,             \* history: number of handleVideoWatched calls
    raisedAt,           \* history: the event numbers at which the effect raised the prompt
    trigger,            \* history: the video of the event that raised the prompt last
    scenario,           \* history: progress through the end-to-end scenario
    scenarioPosts,      \* history: the reactions sent while the scenario is followed
    public_videos,      \* rows of public.videos
    now,                \* the database's NOW()
    writes,             \* history: number of INSERT and UPDATE statements run on public.videos
    page,               \* the answer of GET /api/videos given last
    isLoading,          \* VideoFeed state
    error,              \* VideoFeed state
    nextRequested,      \* history: VideoFeed.handleNextVideo has logged its request
    feedback,           \* FeedbackModal state: the two answers typed
    isSubmitting,       \* FeedbackModal state
    feedbackNet,        \* the POST /api/feedback request in flight, or NoFeedbackRequest
    feedbackReply,      \* the server's answer to it, or NoReply
    public_feedback,    \* rows of public.feedback
    submission,         \* history: what the user did last with the prompt, and how a
                        \* submission ended
    upload_sessions,    \* rows of public.upload_sessions
    job                 \* the batch or directory upload request being served

storeVars == <<user, net, sent, user_interactions, clock, last, resolved>>

gestureVars == <<touch, emitted>>

clientVars == <<cadence, videos, videosWatched, showFeedback, feedbackVideo, currentVideoIndex,
                activeIndex, timers, pending, events, raisedAt, trigger, scenario,
                scenarioPosts>>

feedVars == <<public_videos, now, writes, page, isLoading, error, nextRequested>>

feedbackVars == <<feedback, isSubmitting, feedbackNet, feedbackReply, public_feedback,
                  submission>>

uploadVars == <<upload_sessions, job>>

vars == <<storeVars, gestureVars, clientVars, feedVars, feedbackVars, uploadVars>>

-----------------------------------------------------------------------------
(* Bounds of the model *)

MaxRequests == 3
MaxInFlight == 2
MaxDelta == 102
MaxEvents == 21
MaxClientEvents == 6
MaxPending == 2
MaxTimers == 2
MaxWrites == 3
MaxFeedbackEvents == 11
MaxOffset == 5
MaxLimit == 2
MaxFiles == 2

-----------------------------------------------------------------------------
(* Values *)

Sessions == {"s1", "s2"}

\* auth.users: the registered users; their ids are UUIDs
AuthUsers == {"u1"}

\* UUIDs that generateAnonymousUserId can return; none is a row of auth.users
AnonIds == {"a1", "a2"}

NoUser == "null"
Absent == "undefined"
ANONYMOUS_USER == "anonymous-user"

\* public.videos: ids of the stored videos (UUIDs)
StoredVideos == {"v1"}

\* the id of a video of the mock feed: not a UUID
MockVideoId == "video-1"

InteractionTypes == {"like", "dislike", "emoji", "view"}

UnknownType == "share"

EmptyData == "{}"

Payloads == {"p1", "p2"}

NoRequest == [session |-> "none", userId |-> Absent, videoId |-> Absent,
              type |-> Absent, data |-> Absent]

NoAnswer == [req |-> NoRequest, status |-> 0, success |-> FALSE, fallback |-> FALSE,
             dbError |-> "none", finalUserId |-> Absent, at |-> 0]

-----------------------------------------------------------------------------
(* Pure functions *)

\* JavaScript truthiness of a request field: undefined and "" are falsy
Truthy(x) == x \notin {Absent, ""}

isValidUUID(str) == str \in AuthUsers \cup AnonIds \cup StoredVideos

\* the identity on whose behalf a session acts
ActingIdentity(s) == IF user[s] # NoUser THEN user[s] ELSE s

\* the userId the client puts in the body
ClientUserId(s) == IF user[s] # NoUser THEN user[s] ELSE ANONYMOUS_USER

NeedsAnonymousId(userId) ==
    ~Truthy(userId) \/ userId = ANONYMOUS_USER \/ ~isValidUUID(userId)

\* UNIQUE(user_id, video_id, interaction_type)
UniqueOk_NoConstraint(rows, row) == TRUE

UniqueOk(rows, row) ==
    ~\E r \in rows : /\ r.user_id = row.user_id
                     /\ r.video_id = row.video_id
                     /\ r.interaction_type = row.interaction_type

\* what the table answers to an INSERT of row: the first constraint that fails
InsertError(rows, row, up) ==
    IF ~up THEN "unreachable"
    ELSE IF ~isValidUUID(row.video_id) THEN "invalid_uuid"
    ELSE IF row.user_id \notin AuthUsers THEN "fk_user"
    ELSE IF row.video_id \notin StoredVideos THEN "fk_video"
    ELSE IF ~UniqueOk(rows, row) THEN "unique"
    ELSE "none"

\* supabase.from('user_interactions').insert(row): the table afterwards
InsertInteraction(rows, row, up) ==
    IF InsertError(rows, row, up) = "none" THEN rows \cup {row} ELSE rows

\* the route's `data || {}`
PayloadOf(req) == IF Truthy(req.data) THEN req.data ELSE EmptyData

\* the route's validation
MissingField(req) ==
    ~Truthy(req.userId) \/ ~Truthy(req.videoId) \/ ~Truthy(req.type)

\* the route's answer once recordInteraction has returned (it never throws)
InteractionResponse_PropagateFailure(dbError) ==
    IF dbError = "none"
    THEN [status |-> 200, success |-> TRUE, fallback |-> FALSE]
    ELSE [status |-> 500, success |-> FALSE, fallback |-> TRUE]

InteractionResponse(dbError) ==
    [status |-> 200, success |-> TRUE, fallback |-> dbError # "none"]

-----------------------------------------------------------------------------
(* Requests a client session can send *)

WellFormedRequests(s) ==
    [session : {s}, userId : {ClientUserId(s)}, videoId : StoredVideos,
     type : {"like", "dislike"}, data : Payloads]

MalformedRequests(s) ==
    LET base == [session |-> s, userId |-> ClientUserId(s), videoId |-> "v1",
                 type |-> "like", data |-> "p1"]
    IN  { [base EXCEPT !.userId = Absent],
          [base EXCEPT !.videoId = Absent],
          [base EXCEPT !.type = Absent],
          [base EXCEPT !.type = UnknownType],
          [base EXCEPT !.videoId = MockVideoId],
          [base EXCEPT !.data = Absent] }

-----------------------------------------------------------------------------
(* Actions of Spec *)

\* session s1 is signed in; session s2 is signed in or anonymous
StoreInit ==
    /\ user \in {u \in [Sessions -> AuthUsers \cup {NoUser}] : u["s1"] # NoUser}
    /\ net = {}
    /\ sent = 0
    /\ user_interactions = {}
    /\ clock = 0
    /\ last = NoAnswer
    /\ resolved = [s \in Sessions |-> {}]

\* the store at rest
StoreInitial ==
    /\ StoreInit
    /\ user = [s \in Sessions |-> IF s = "s1" THEN "u1" ELSE NoUser]

\* VideoFeed.handleVideoReaction: fetch(API_URLS.INTERACTIONS, POST {userId, videoId, type, data})
PostInteraction ==
    \E s \in Sessions :
      \E req \in WellFormedRequests(s) \cup MalformedRequests(s) :
        /\ sent < MaxRequests
        /\ Cardinality(net) < MaxInFlight
        /\ req \notin net
        /\ net' = net \cup {req}
        /\ sent' = sent + 1
        /\ UNCHANGED <<user, user_interactions, clock, last, resolved, gestureVars, uploadVars, clientVars, feedVars, feedbackVars>>

\* app.post('/api/interactions'): the 400 branch
RejectInteraction ==
    \E req \in net :
        /\ MissingField(req)
        /\ net' = net \ {req}
        /\ clock' = clock + 1
        /\ last' = [req |-> req, status |-> 400, success |-> FALSE, fallback |-> FALSE,
                    dbError |-> "none", finalUserId |-> Absent, at |-> clock + 1]
        /\ UNCHANGED <<user, sent, user_interactions, resolved, gestureVars, uploadVars, clientVars, feedVars, feedbackVars>>

\* app.post('/api/interactions') calling supabaseService.recordInteraction
recordInteraction ==
    \E req \in net, up \in BOOLEAN, anon \in AnonIds :
        /\ ~MissingField(req)
        /\ LET generated == NeedsAnonymousId(req.userId)
               finalUserId == IF generated THEN anon ELSE req.userId
               row == [id |-> clock + 1,
                       user_id |-> finalUserId,
                       video_id |-> req.videoId,
                       interaction_type |-> req.type,
                       interaction_data |-> PayloadOf(req),
                       created_at |-> clock + 1,
                       actor |-> ActingIdentity(req.session)]
               err == InsertError(user_interactions, row, up)
               answer == InteractionResponse(err)
           IN  /\ user_interactions' = InsertInteraction(user_interactions, row, up)
               /\ resolved' = IF generated
                              THEN [resolved EXCEPT ![req.session] = @ \cup {anon}]
                              ELSE resolved
               /\ last' = [req |-> req, status |-> answer.status, success |-> answer.success,
                           fallback |-> answer.fallback, dbError |-> err,
                           finalUserId |-> finalUserId, at |-> clock + 1]
        /\ net' = net \ {req}
        /\ clock' = clock + 1
        /\ UNCHANGED <<user, sent, gestureVars, uploadVars, clientVars, feedVars, feedbackVars>>

StoreNext ==
    \/ PostInteraction
    \/ RejectInteraction
    \/ recordInteraction

\* two requests have been sent before the server handles either of them
StoreInFlight ==
    /\ user \in {u \in [Sessions -> AuthUsers \cup {NoUser}] : u["s1"] # NoUser}
    /\ net \in {{a, b} : a, b \in UNION {WellFormedRequests(s) \cup MalformedRequests(s) :
                                           s \in Sessions}}
    /\ Cardinality(net) = 2
    /\ sent = 2
    /\ user_interactions = {}
    /\ clock = 0
    /\ last = NoAnswer
    /\ resolved = [s \in Sessions |-> {}]

\* the server handles the requests in flight, in any order
ConcurrentNext ==
    \/ RejectInteraction
    \/ recordInteraction

-----------------------------------------------------------------------------
(* The gesture classifier: Swiper onTouchEnd *)

SWIPE_THRESHOLD == 50
SWIPE_UP_THRESHOLD == 100

Abs(x) == IF x < 0 THEN -x ELSE x

\* the branch onTouchEnd takes for the vector (deltaX, deltaY):
\* "right" is a like, "left" a dislike, "up" the next video
classify_Inclusive(deltaX, deltaY) ==
    IF Abs(deltaX) >= Abs(deltaY) /\ Abs(deltaX) >= SWIPE_THRESHOLD
    THEN (IF deltaX > 0 THEN "right" ELSE "left")
    ELSE IF deltaY < -SWIPE_UP_THRESHOLD THEN "up"
    ELSE "none"

classify(deltaX, deltaY) ==
    IF Abs(deltaX) > Abs(deltaY) /\ Abs(deltaX) > SWIPE_THRESHOLD
    THEN (IF deltaX > 0 THEN "right" ELSE "left")
    ELSE IF deltaY < -SWIPE_UP_THRESHOLD THEN "up"
    ELSE "none"

Deltas == (-MaxDelta)..MaxDelta

NoTouch == [dx |-> 0, dy |-> 0]

GestureIdle ==
    /\ touch = NoTouch
    /\ emitted = "idle"

\* a finger is down and has moved by (dx, dy) when it is lifted
GestureInit ==
    /\ touch \in [dx : Deltas, dy : Deltas]
    /\ emitted = "touching"

-----------------------------------------------------------------------------
(* The client: Home, VideoFeed, SwipeVideoPlayer *)

CADENCE_10 == 10
CADENCE_5 == 5

\* VideoFeed's mockVideos
MockFeed == <<"video-1", "video-2", "video-3", "video-4", "video-5">>

\* a feed served by the API (data.videos): two stored videos
ServedFeed == <<"v1", "v2">>

NoVideo == "null"

\* the end-to-end scenario: the swipe expected on each video, in order
Scenario == <<"right", "left", "up", "up", "up">>
ScenarioOff == Len(Scenario) + 1

\* the gestures a user of the client makes: a clear swipe right, left and up,
\* and the upward drag of exactly 100 px
Gestures == { <<100, 0>>, <<-100, 0>>, <<0, -150>>, <<0, -100>> }

\* Home's effect on [videosWatched]
FeedbackDue_NoZeroGuard(watched, n) == watched % n = 0

FeedbackDue(watched, n) == watched > 0 /\ watched % n = 0

\* Home.handleVideoWatched's test, on the videosWatched its closure captured
IsCadenceVideo(captured, n) == (captured + 1) % n = 0

\* swiperRef.current.slideNext(): the Swiper's activeIndex afterwards
SlideNext(active) == IF active < Len(videos) - 1 THEN active + 1 ELSE active

ClientIdle ==
    /\ cadence = CADENCE_5
    /\ videos = MockFeed
    /\ videosWatched = 0
    /\ showFeedback = FALSE
    /\ feedbackVideo = NoVideo
    /\ currentVideoIndex = 0
    /\ activeIndex = 0
    /\ timers = <<>>
    /\ pending = EmptyBag
    /\ events = 0
    /\ raisedAt = {}
    /\ trigger = NoVideo
    /\ scenario = 0
    /\ scenarioPosts = {}

\* the page is mounted with cadence n, the feed is loaded, the mount effects have run
ClientInit(n, loaded) ==
    /\ cadence = n
    /\ videos = loaded
    /\ videosWatched = 0
    /\ showFeedback = FeedbackDue(0, cadence)
    /\ feedbackVideo = NoVideo
    /\ currentVideoIndex = 0
    /\ activeIndex = 0
    /\ timers = <<>>
    /\ pending = EmptyBag
    /\ events = 0
    /\ raisedAt = IF FeedbackDue(0, cadence) THEN {0} ELSE {}
    /\ trigger = NoVideo
    /\ scenario = 0
    /\ scenarioPosts = {}

\* SwipeVideoPlayer.goToNextVideo, run by a closure that captured index `captured`
goToNextVideo(captured) ==
    IF captured < Len(videos) - 1
    THEN /\ activeIndex' = SlideNext(activeIndex)
         \* setCurrentVideoIndex(captured + 1), then onSlideChange's
         \* setCurrentVideoIndex(swiper.activeIndex) when the slide changed
         /\ currentVideoIndex' = IF SlideNext(activeIndex) # activeIndex
                                 THEN SlideNext(activeIndex)
                                 ELSE captured + 1
    ELSE \* onNextVideo(): VideoFeed.handleNextVideo only logs
         UNCHANGED <<activeIndex, currentVideoIndex>>

\* the scenario monitor after a swipe `direction` on the video at index i
ScenarioStep(i, direction) ==
    IF scenario < Len(Scenario) /\ i = scenario /\ Scenario[scenario + 1] = direction
    THEN scenario + 1
    ELSE ScenarioOff

\* SwipeVideoPlayer.handleSwipe('left' | 'right'), with VideoFeed.handleVideoReaction
\* up to its await fetch(...)
handleSwipeReaction(direction) ==
    LET reaction == IF direction = "right" THEN "like" ELSE "dislike"
        videoId == videos[currentVideoIndex + 1]
    IN  /\ BagCardinality(pending) < MaxPending
        /\ Len(timers) < MaxTimers
        /\ pending' = pending (+) SetToBag({[videoId |-> videoId, captured |-> videosWatched]})
        /\ timers' = Append(timers, currentVideoIndex)
        /\ scenario' = ScenarioStep(currentVideoIndex, direction)
        /\ scenarioPosts' = IF scenario' = ScenarioOff THEN {}
                            ELSE scenarioPosts \cup {<<videoId, reaction>>}
        /\ UNCHANGED <<cadence, videos, videosWatched, showFeedback, feedbackVideo,
                       currentVideoIndex, activeIndex, events, raisedAt, trigger>>

\* SwipeVideoPlayer.handleSwipe('up')
handleSwipeUp ==
    /\ goToNextVideo(currentVideoIndex)
    /\ scenario' = ScenarioStep(currentVideoIndex, "up")
    /\ scenarioPosts' = IF scenario' = ScenarioOff THEN {} ELSE scenarioPosts
    /\ UNCHANGED <<cadence, videos, videosWatched, showFeedback, feedbackVideo, timers,
                   pending, events, raisedAt, trigger>>

\* Swiper onTouchEnd: classify the gesture and call handleSwipe
onTouchEnd ==
    \E g \in Gestures :
        LET direction == classify(g[1], g[2])
        IN  /\ direction # "none"
            /\ IF direction = "up" THEN handleSwipeUp
                                   ELSE handleSwipeReaction(direction)
            /\ UNCHANGED <<storeVars, gestureVars, uploadVars, feedVars, feedbackVars>>

\* SwipeVideoPlayer.handleEmojiReaction, with VideoFeed.handleVideoReaction up to
\* its await fetch(...)
handleEmojiReaction ==
    /\ BagCardinality(pending) < MaxPending
    /\ pending' = pending (+) SetToBag({[videoId |-> videos[currentVideoIndex + 1],
                                         captured |-> videosWatched]})
    /\ scenario' = ScenarioOff
    /\ scenarioPosts' = {}
    /\ UNCHANGED <<cadence, videos, videosWatched, showFeedback, feedbackVideo,
                   currentVideoIndex, activeIndex, timers, events, raisedAt, trigger>>
    /\ UNCHANGED <<storeVars, gestureVars, uploadVars, feedVars, feedbackVars>>

\* the 300 ms timer of handleSwipe fires: goToNextVideo of the render it was set in
advanceTimer ==
    /\ timers # <<>>
    /\ goToNextVideo(Head(timers))
    /\ timers' = Tail(timers)
    /\ UNCHANGED <<cadence, videos, videosWatched, showFeedback, feedbackVideo, pending,
                   events, raisedAt, trigger, scenario, scenarioPosts>>
    /\ UNCHANGED <<storeVars, gestureVars, uploadVars, feedVars, feedbackVars>>

\* a fetch of handleVideoReaction settles (resolved or rejected: both branches call
\* onVideoWatched); Home.handleVideoWatched runs, Home re-renders and its effect runs
handleVideoWatched ==
    \E r \in BagToSet(pending) :
        LET due == FeedbackDue(videosWatched + 1, cadence)
        IN  /\ pending' = pending (-) SetToBag({r})
            /\ videosWatched' = videosWatched + 1
            /\ feedbackVideo' = IF IsCadenceVideo(r.captured, cadence)
                                THEN r.videoId ELSE feedbackVideo
            /\ showFeedback' = (showFeedback \/ due)
            /\ events' = events + 1
            /\ raisedAt' = IF due THEN raisedAt \cup {events + 1} ELSE raisedAt
            /\ trigger' = IF due THEN r.videoId ELSE trigger
            /\ UNCHANGED <<cadence, videos, currentVideoIndex, activeIndex, timers, scenario,
                           scenarioPosts>>
            /\ UNCHANGED <<storeVars, gestureVars, uploadVars, feedVars, feedbackVars>>

\* Home.handleFeedbackSubmit
handleFeedbackSubmit ==
    /\ showFeedback
    /\ showFeedback' = FALSE
    /\ feedbackVideo' = NoVideo
    /\ scenario' = ScenarioOff
    /\ scenarioPosts' = {}
    /\ UNCHANGED <<cadence, videos, videosWatched, currentVideoIndex, activeIndex, timers,
                   pending, events, raisedAt, trigger>>
    /\ UNCHANGED <<storeVars, gestureVars, uploadVars, feedVars, feedbackVars>>

\* FeedbackModal onClose={() => setShowFeedback(false)}
onClose ==
    /\ showFeedback
    /\ showFeedback' = FALSE
    /\ scenario' = ScenarioOff
    /\ scenarioPosts' = {}
    /\ UNCHANGED <<cadence, videos, videosWatched, feedbackVideo, currentVideoIndex,
                   activeIndex, timers, pending, events, raisedAt, trigger>>
    /\ UNCHANGED <<storeVars, gestureVars, uploadVars, feedVars, feedbackVars>>

CadenceNext ==
    \/ onTouchEnd
    \/ handleEmojiReaction
    \/ advanceTimer
    \/ (events < MaxEvents /\ handleVideoWatched)
    \/ handleFeedbackSubmit
    \/ onClose

ClientNext ==
    \/ onTouchEnd
    \/ handleEmojiReaction
    \/ advanceTimer
    \/ (events < MaxClientEvents /\ handleVideoWatched)
    \/ handleFeedbackSubmit
    \/ onClose

\* the viewer reacts, by swipe or emoji, and never swipes up: the position moves
\* by the deferred advances only
RapidNext ==
    \/ (onTouchEnd /\ timers' # timers)
    \/ handleEmojiReaction
    \/ advanceTimer
    \/ (events < MaxClientEvents /\ handleVideoWatched)
    \/ handleFeedbackSubmit
    \/ onClose

\* Swiper onTouchEnd on the gesture of SpecClassify
classifyTouch ==
    /\ emitted = "touching"
    /\ emitted' = classify(touch.dx, touch.dy)
    /\ UNCHANGED <<touch, storeVars, clientVars, feedVars, feedbackVars, uploadVars>>

-----------------------------------------------------------------------------
(* The feed: public.videos, the upload routes and GET /api/videos *)

\* the ids uuid_generate_v4() can give to a video, in ascending order of id
VideoIdOrder == <<"v1", "v2", "v3">>

VideoIds == {VideoIdOrder[i] : i \in 1..Len(VideoIdOrder)}

\* the position of an id in the order of ids
IdRank(id) == CHOOSE i \in 1..Len(VideoIdOrder) : VideoIdOrder[i] = id

ORIGINAL_TITLE == "t1"
UPDATED_TITLE == "t2"

\* the user id the upload routes fall back to: not a UUID
MOCK_USER_ID == "mock-user-id"

Offsets == 0..MaxOffset

Limits == 1..MaxLimit

\* VideoFeed.fetchVideos asks for ?limit=20; the model's client asks for the
\* largest page of the bounded table
FETCH_LIMIT == MaxLimit

\* VideoFeed's fallbackVideos
FallbackVideos == <<"fallback-1", "fallback-2">>

NoPage == [offset |-> 0, limit |-> 0, videos |-> <<>>, status |-> 0, success |-> FALSE,
           fallback |-> FALSE, hasMore |-> FALSE, dbError |-> FALSE, fresh |-> FALSE]

\* history kept with the answer: a statement has changed public.videos since
Stale(answer) == [answer EXCEPT !.fresh = FALSE]

Min(a, b) == IF a < b THEN a ELSE b

\* Array.prototype.slice(from, to) and PostgREST's range(from, to - 1)
Slice(seq, from, to) == SubSeq(seq, from + 1, Min(to, Len(seq)))

\* .eq('is_active', true)
ActiveOnly_NoFilter(rows) == rows

ActiveOnly(rows) == {r \in rows : r.is_active}

\* .order('created_at', { ascending: false }): the orders in which the database
\* may return rows; rows with equal created_at come in any order
OrderedByCreatedAt(rows) ==
    {f \in [1..Cardinality(rows) -> rows] :
        /\ \A i, j \in 1..Cardinality(rows) : f[i] = f[j] => i = j
        /\ \A i, j \in 1..Cardinality(rows) : i < j => f[i].created_at >= f[j].created_at}

\* SupabaseService.getVideoFeed: the pages it can return for (limit, offset)
getVideoFeed(rows, limit, offset) ==
    {Slice([i \in 1..Len(f) |-> f[i].id], offset, offset + limit) :
        f \in OrderedByCreatedAt(ActiveOnly(rows))}

\* app.get('/api/videos'): the answers it can give
VideosResponse(rows, limit, offset, up) ==
    IF up
    THEN {[offset |-> offset, limit |-> limit, videos |-> v, status |-> 200,
           success |-> TRUE, fallback |-> FALSE, hasMore |-> (Len(v) = limit),
           dbError |-> FALSE, fresh |-> TRUE] : v \in getVideoFeed(rows, limit, offset)}
    ELSE {[offset |-> offset, limit |-> limit,
           videos |-> Slice(MockFeed, offset, offset + limit), status |-> 200,
           success |-> TRUE, fallback |-> TRUE, hasMore |-> FALSE,
           dbError |-> TRUE, fresh |-> TRUE]}

\* SupabaseService.updateVideo: .update(updates).eq('id', videoId)
updateVideo(rows, videoId, field, value) ==
    {IF r.id # videoId THEN r
     ELSE IF field = "title" THEN [r EXCEPT !.title = value]
     ELSE [r EXCEPT !.is_active = value] : r \in rows}

\* the database holds the stored videos and no client is loading
FeedIdle ==
    /\ public_videos = {[id |-> v, created_at |-> 0, is_active |-> TRUE,
                         title |-> ORIGINAL_TITLE] : v \in StoredVideos}
    /\ now = 0
    /\ writes = 0
    /\ page = NoPage
    /\ isLoading = FALSE
    /\ error = FALSE
    /\ nextRequested = FALSE

\* an empty database
FeedInit ==
    /\ public_videos = {}
    /\ now = 0
    /\ writes = 0
    /\ page = NoPage
    /\ isLoading = FALSE
    /\ error = FALSE
    /\ nextRequested = FALSE

\* POST /api/upload/video with SupabaseService.createVideo; two inserts can fall
\* in the same instant of NOW()
createVideo ==
    \E id \in VideoIds, userId \in AuthUsers \cup {MOCK_USER_ID}, tick \in {0, 1} :
        /\ writes < MaxWrites
        /\ id \notin {r.id : r \in public_videos}
        /\ isValidUUID(userId)
        /\ now' = now + tick
        /\ public_videos' = public_videos \cup
               {[id |-> id, created_at |-> now + tick, is_active |-> TRUE,
                 title |-> ORIGINAL_TITLE]}
        /\ writes' = writes + 1
        /\ page' = Stale(page)
        /\ UNCHANGED <<isLoading, error, nextRequested>>
        /\ UNCHANGED <<storeVars, gestureVars, uploadVars, clientVars, feedbackVars>>

\* PUT /api/upload/video/:videoId with a new title
updateVideoRoute ==
    \E id \in {r.id : r \in public_videos} :
        /\ writes < MaxWrites
        /\ public_videos' = updateVideo(public_videos, id, "title", UPDATED_TITLE)
        /\ writes' = writes + 1
        /\ page' = Stale(page)
        /\ UNCHANGED <<now, isLoading, error, nextRequested>>
        /\ UNCHANGED <<storeVars, gestureVars, uploadVars, clientVars, feedbackVars>>

\* DELETE /api/upload/video/:videoId: getVideo must find the active row, then
\* the row is soft deleted
deleteVideoRoute ==
    \E r \in ActiveOnly(public_videos) :
        /\ writes < MaxWrites
        /\ public_videos' = updateVideo(public_videos, r.id, "is_active", FALSE)
        /\ writes' = writes + 1
        /\ page' = Stale(page)
        /\ UNCHANGED <<now, isLoading, error, nextRequested>>
        /\ UNCHANGED <<storeVars, gestureVars, uploadVars, clientVars, feedbackVars>>

\* GET /api/videos?limit=&offset=
getVideos ==
    \E offset \in Offsets, limit \in Limits, up \in BOOLEAN :
      \E answer \in VideosResponse(public_videos, limit, offset, up) :
        /\ page' = answer
        /\ UNCHANGED <<public_videos, now, writes, isLoading, error, nextRequested>>
        /\ UNCHANGED <<storeVars, gestureVars, uploadVars, clientVars, feedbackVars>>

FeedNext ==
    \/ createVideo
    \/ updateVideoRoute
    \/ deleteVideoRoute
    \/ getVideos

\* an empty database, and a VideoFeed that has just been mounted
FeedMounting ==
    /\ public_videos = {}
    /\ now = 0
    /\ writes = 0
    /\ page = NoPage
    /\ isLoading = TRUE
    /\ error = FALSE
    /\ nextRequested = FALSE

\* VideoFeed.fetchVideos, run by the mount effect: the request, the route's answer
\* and the state set from it; without an answer the catch branch runs
fetchVideos ==
    \E up \in BOOLEAN, answered \in BOOLEAN :
      \E answer \in VideosResponse(public_videos, FETCH_LIMIT, 0, up) :
        /\ isLoading
        /\ IF answered
           THEN /\ videos' = answer.videos
                /\ page' = answer
                /\ error' = FALSE
           ELSE /\ videos' = FallbackVideos
                /\ error' = TRUE
                /\ UNCHANGED page
        /\ isLoading' = FALSE
        /\ UNCHANGED <<public_videos, now, writes, nextRequested>>
        /\ UNCHANGED <<cadence, videosWatched, showFeedback, feedbackVideo, currentVideoIndex,
                       activeIndex, timers, pending, events, raisedAt, trigger, scenario,
                       scenarioPosts>>
        /\ UNCHANGED <<storeVars, gestureVars, uploadVars, feedbackVars>>

\* VideoFeed renders the player, and the player finds videos[currentVideoIndex]
PlayerShown == ~isLoading /\ currentVideoIndex < Len(videos)

\* the user advances: handleSwipe('up') on the player shown, with the call of
\* onNextVideo recorded
advance ==
    /\ PlayerShown
    /\ goToNextVideo(currentVideoIndex)
    /\ nextRequested' = (nextRequested \/ ~(currentVideoIndex < Len(videos) - 1))
    /\ UNCHANGED <<public_videos, now, writes, page, isLoading, error>>
    /\ UNCHANGED <<cadence, videos, videosWatched, showFeedback, feedbackVideo, timers,
                   pending, events, raisedAt, trigger, scenario, scenarioPosts>>
    /\ UNCHANGED <<storeVars, gestureVars, uploadVars, feedbackVars>>

CursorNext ==
    \/ createVideo
    \/ deleteVideoRoute
    \/ fetchVideos
    \/ advance

-----------------------------------------------------------------------------
(* Feedback: FeedbackModal, POST /api/feedback and public.feedback *)

\* the session the mounted client runs in
CLIENT_SESSION == "s2"

\* what the user types into a textarea of the modal: nothing, or text
Answers == {"", "a"}

\* String.prototype.trim
trim(str) == IF str = " " THEN "" ELSE str

EmptyForm == [whatDidYouSee |-> "", whyDidYouReact |-> ""]

NoFeedbackRequest == [session |-> "none", videoId |-> Absent, whatDidYouSee |-> Absent,
                      whyDidYouReact |-> Absent, timestamp |-> 0]

NoReply == [status |-> 0, success |-> FALSE, fallback |-> FALSE, dbError |-> "none",
            user_id |-> Absent]

NoSubmission == "none"

\* the columns of public.feedback
FeedbackColumns == {"id", "user_id", "video_id", "rating", "categories", "would_recommend",
                    "comments", "improvement_suggestions", "created_at"}

\* FeedbackModal.handleSubmit's validation: both answers, trimmed, are non-empty
FormValid(form) == trim(form.whatDidYouSee) # "" /\ trim(form.whyDidYouReact) # ""

\* the route's validation: both answers are truthy
FeedbackMissingField(req) == ~Truthy(req.whatDidYouSee) \/ ~Truthy(req.whyDidYouReact)

\* the route's feedbackData
feedbackData(req) ==
    [video_id |-> req.videoId, user_id |-> ANONYMOUS_USER,
     what_did_you_see |-> req.whatDidYouSee, why_did_you_react |-> req.whyDidYouReact,
     created_at |-> req.timestamp]

\* what the table answers to an INSERT of row: the first check that fails
FeedbackInsertError(row, up) ==
    IF ~up THEN "unreachable"
    ELSE IF ~(DOMAIN row \subseteq FeedbackColumns) THEN "unknown_column"
    ELSE IF ~isValidUUID(row.user_id) THEN "invalid_uuid"
    ELSE IF row.user_id \notin AuthUsers THEN "fk_user"
    ELSE "none"

\* SupabaseService.submitFeedback: the table afterwards
submitFeedback(rows, row, up) ==
    IF FeedbackInsertError(row, up) = "none" THEN rows \cup {row} ELSE rows

\* how fetch(API_URLS.FEEDBACK) can end for the modal: "2xx" and "non2xx" resolve
\* the promise, "network" rejects it
FetchOutcomes == {"2xx", "non2xx", "network"}

\* handleSubmit calls onSubmit(feedback) after the await and in its catch
CallsOnSubmit_OnlyWhenOk(outcome) == outcome = "2xx"

CallsOnSubmit(outcome) == TRUE

\* useEffect(..., [videosWatched]) runs after a render only if videosWatched changed
EffectRuns_EveryRender(before, after) == TRUE

EffectRuns(before, after) == before # after

FeedbackIdle ==
    /\ feedback = EmptyForm
    /\ isSubmitting = FALSE
    /\ feedbackNet = NoFeedbackRequest
    /\ feedbackReply = NoReply
    /\ public_feedback = {}
    /\ submission = NoSubmission

\* the textareas' onChange
setFeedback ==
    \E what \in Answers, why \in Answers :
        /\ showFeedback
        /\ ~isSubmitting
        /\ feedback' = [whatDidYouSee |-> what, whyDidYouReact |-> why]
        /\ UNCHANGED <<isSubmitting, feedbackNet, feedbackReply, public_feedback,
                       submission>>
        /\ UNCHANGED <<storeVars, gestureVars, uploadVars, clientVars, feedVars>>

\* FeedbackModal.handleSubmit up to its await fetch(...)
handleSubmit ==
    /\ showFeedback
    /\ ~isSubmitting
    /\ feedbackNet = NoFeedbackRequest
    /\ IF ~FormValid(feedback)
       THEN \* alert('Please answer both questions before submitting.')
            /\ submission' = "ValidationError"
            /\ UNCHANGED <<isSubmitting, feedbackNet>>
       ELSE /\ isSubmitting' = TRUE
            /\ feedbackNet' = [session |-> CLIENT_SESSION, videoId |-> feedbackVideo,
                               whatDidYouSee |-> feedback.whatDidYouSee,
                               whyDidYouReact |-> feedback.whyDidYouReact,
                               timestamp |-> events]
            /\ submission' = "sent"
    /\ UNCHANGED <<feedback, feedbackReply, public_feedback>>
    /\ UNCHANGED <<storeVars, gestureVars, uploadVars, clientVars, feedVars>>

\* app.post('/api/feedback')
postFeedback ==
    \E up \in BOOLEAN :
        /\ feedbackNet # NoFeedbackRequest
        /\ feedbackReply = NoReply
        /\ IF FeedbackMissingField(feedbackNet)
           THEN /\ feedbackReply' = [status |-> 400, success |-> FALSE, fallback |-> FALSE,
                                     dbError |-> "none", user_id |-> Absent]
                /\ UNCHANGED public_feedback
           ELSE LET row == feedbackData(feedbackNet)
                    err == FeedbackInsertError(row, up)
                IN  /\ public_feedback' = submitFeedback(public_feedback, row, up)
                    /\ feedbackReply' = [status |-> 200, success |-> TRUE,
                                         fallback |-> err # "none", dbError |-> err,
                                         user_id |-> row.user_id]
        /\ UNCHANGED <<feedback, isSubmitting, feedbackNet, submission>>
        /\ UNCHANGED <<storeVars, gestureVars, uploadVars, clientVars, feedVars>>

\* the fetch of handleSubmit settles: handleSubmit's continuation, with
\* Home.handleFeedbackSubmit and the modal's unmount
onSubmit ==
    \E outcome \in FetchOutcomes :
        /\ feedbackNet # NoFeedbackRequest
        /\ outcome = "2xx" => feedbackReply.status = 200
        /\ feedbackNet' = NoFeedbackRequest
        /\ feedbackReply' = NoReply
        /\ submission' = outcome
        /\ isSubmitting' = FALSE
        /\ IF CallsOnSubmit(outcome)
           THEN /\ showFeedback' = FALSE
                /\ feedbackVideo' = NoVideo
                /\ feedback' = EmptyForm
           ELSE UNCHANGED <<showFeedback, feedbackVideo, feedback>>
        /\ UNCHANGED public_feedback
        /\ UNCHANGED <<cadence, videos, videosWatched, currentVideoIndex, activeIndex, timers,
                       pending, events, raisedAt, trigger, scenario, scenarioPosts>>
        /\ UNCHANGED <<storeVars, gestureVars, uploadVars, feedVars>>

\* the Skip button: onClose={() => setShowFeedback(false)}, then Home renders
\* again, its effects run, and the modal is unmounted if the prompt is closed
Skip ==
    /\ showFeedback
    /\ showFeedback' = (EffectRuns(videosWatched, videosWatched)
                            /\ FeedbackDue(videosWatched, cadence))
    /\ IF showFeedback' THEN UNCHANGED <<feedback, isSubmitting>>
       ELSE feedback' = EmptyForm /\ isSubmitting' = FALSE
    /\ submission' = "skip"
    /\ UNCHANGED <<feedbackNet, feedbackReply, public_feedback>>
    /\ UNCHANGED <<cadence, videos, videosWatched, feedbackVideo, currentVideoIndex,
                   activeIndex, timers, pending, events, raisedAt, trigger, scenario,
                   scenarioPosts>>
    /\ UNCHANGED <<storeVars, gestureVars, uploadVars, feedVars>>

\* the modal lies over the player: no gesture reaches the player while it is shown;
\* the viewer reacts by swiping (the emoji buttons end in the same handleReaction)
FeedbackNext ==
    \/ (~showFeedback /\ onTouchEnd)
    \/ advanceTimer
    \/ (events < MaxFeedbackEvents /\ handleVideoWatched)
    \/ setFeedback
    \/ handleSubmit
    \/ postFeedback
    \/ onSubmit
    \/ Skip

-----------------------------------------------------------------------------
(* The session: Home's welcome overlay, login and logout *)

\* the Home whose effect tests videosWatched % 10 shows the welcome overlay and
\* always mounts the feed; the Home whose effect tests videosWatched % 5 shows
\* the login screen instead of the feed until the user is authenticated
SignedIn == user[CLIENT_SESSION] # NoUser

\* {!user && videosWatched === 0 && (...)}: the overlay lies over the feed
WelcomeShown == cadence = CADENCE_10 /\ ~SignedIn /\ videosWatched = 0

FeedMounted == cadence = CADENCE_10 \/ SignedIn

\* a gesture reaches the player
PlayerReachable == FeedMounted /\ ~WelcomeShown /\ ~showFeedback

\* the overlay's button: onClick={() => setVideosWatched(1)}, then the effect on
\* [videosWatched]
continueAsGuest ==
    /\ WelcomeShown
    /\ videosWatched' = 1
    /\ showFeedback' = (showFeedback \/ FeedbackDue(1, cadence))
    /\ UNCHANGED <<cadence, videos, feedbackVideo, currentVideoIndex, activeIndex, timers,
                   pending, events, raisedAt, trigger, scenario, scenarioPosts>>
    /\ UNCHANGED <<storeVars, gestureVars, uploadVars, feedVars, feedbackVars>>

\* Home.handleLogout; the session ends, and the histories of its events with it
handleLogout ==
    /\ cadence = CADENCE_5
    /\ SignedIn
    /\ user' = [user EXCEPT ![CLIENT_SESSION] = NoUser]
    /\ videosWatched' = 0
    /\ events' = 0
    /\ raisedAt' = {}
    /\ UNCHANGED <<cadence, videos, showFeedback, feedbackVideo, currentVideoIndex,
                   activeIndex, timers, pending, trigger, scenario, scenarioPosts>>
    /\ UNCHANGED <<net, sent, user_interactions, clock, last, resolved>>
    /\ UNCHANGED <<gestureVars, uploadVars, feedVars, feedbackVars>>

\* Home.handleLogin
handleLogin ==
    \E u \in AuthUsers :
        /\ cadence = CADENCE_5
        /\ ~SignedIn
        /\ user' = [user EXCEPT ![CLIENT_SESSION] = u]
        /\ UNCHANGED <<net, sent, user_interactions, clock, last, resolved>>
        /\ UNCHANGED <<gestureVars, uploadVars, clientVars, feedVars, feedbackVars>>

SessionNext ==
    \/ (PlayerReachable /\ onTouchEnd)
    \/ (PlayerReachable /\ handleEmojiReaction)
    \/ advanceTimer
    \/ (events < MaxClientEvents /\ handleVideoWatched)
    \/ handleFeedbackSubmit
    \/ onClose
    \/ continueAsGuest
    \/ handleLogout
    \/ handleLogin

-----------------------------------------------------------------------------
(* Bulk upload: POST /api/upload/batch and /directory, public.upload_sessions *)

\* the id for which createUploadSession and createVideo write null
MVP_USER_ID == "00000000-0000-0000-0000-000000000001"

\* req.body.userId of an upload request
UploadUserIds == AuthUsers \cup {MOCK_USER_ID, MVP_USER_ID, Absent}

\* req.body.directoryPath: none, a path that cannot be read, a directory of videos
DirectoryPaths == {Absent, "missing", "videos"}

\* the id the table gives the session row
SESSION_ID == "us1"

NoSession == "none"

NoResults == [successful |-> <<>>, failed |-> <<>>]

NoJob == [route |-> "none", pc |-> "idle", userId |-> Absent, directoryPath |-> Absent,
          files |-> 0, session |-> NoSession, uploadResults |-> NoResults,
          dbResults |-> NoResults, status |-> 0, error |-> "none"]

UploadIdle ==
    /\ upload_sessions = {}
    /\ job = NoJob

\* the row createUploadSession inserts
NewUploadSession(userId, totalFiles) ==
    [id |-> SESSION_ID,
     user_id |-> IF userId = MVP_USER_ID THEN NoUser ELSE userId,
     total_files |-> totalFiles, uploaded_files |-> 0, failed_files |-> 0,
     status |-> "in_progress"]

\* what public.upload_sessions answers to the INSERT: user_id UUID REFERENCES
\* auth.users(id) NOT NULL
SessionInsertError(row, up) ==
    IF ~up THEN "unreachable"
    ELSE IF row.user_id = NoUser THEN "not_null"
    ELSE IF row.user_id \notin AuthUsers \cup AnonIds THEN "invalid_uuid"
    ELSE IF row.user_id \notin AuthUsers THEN "fk_user"
    ELSE "none"

\* status VARCHAR(20)
STATUS_WIDTH == 20

\* what public.upload_sessions answers to the UPDATE: a status longer than the
\* column is refused (value too long for type character varying)
SessionUpdateError(updates, up) ==
    IF ~up THEN "unreachable"
    ELSE IF "status" \in DOMAIN updates /\ Len(updates.status) > STATUS_WIDTH
    THEN "value_too_long"
    ELSE "none"

\* SupabaseService.updateUploadSession: .update(updates).eq('id', sessionId)
updateUploadSession(rows, sessionId, updates) ==
    {IF r.id # sessionId THEN r
     ELSE [f \in DOMAIN r |-> IF f \in DOMAIN updates THEN updates[f] ELSE r[f]] : r \in rows}

\* uploadVideoBatch's totals
totalUploaded(results) == Len(results.successful)

totalFailedUploads(results) == Len(results.failed)

\* batchCreateVideos' totals
totalCreated(db) == Len(db.successful)

totalFailed(db, results) == Len(db.failed) + Len(results.failed)

\* the final update of both routes
FinalUpdate(db, results) ==
    [uploaded_files |-> totalCreated(db),
     failed_files |-> totalFailed(db, results),
     status |-> IF totalFailed(db, results) = 0 THEN "completed"
                ELSE "completed_with_errors"]

\* where the request goes once uploadVideoBatch has returned
AfterUploads(route, results) ==
    IF route = "directory" THEN "counting"
    ELSE IF totalUploaded(results) = 0 THEN "finishing"
    ELSE "recording"

\* the request ends with this HTTP status; err is what was thrown, if anything
Answered(code, err) == [job EXCEPT !.pc = "done", !.status = code, !.error = err]

\* router.post('/batch') up to the end of createUploadSession
postBatch ==
    \E n \in 0..MaxFiles, userId \in UploadUserIds, up \in BOOLEAN :
        LET uid == IF Truthy(userId) THEN userId ELSE MOCK_USER_ID
            row == NewUploadSession(uid, n)
            started == [NoJob EXCEPT !.route = "batch", !.userId = uid, !.files = n]
        IN  /\ job.pc = "idle"
            /\ IF n = 0
               THEN /\ job' = [started EXCEPT !.pc = "done", !.status = 400]
                    /\ UNCHANGED upload_sessions
               ELSE IF SessionInsertError(row, up) # "none"
               THEN /\ job' = [started EXCEPT !.pc = "done", !.status = 500,
                                              !.error = SessionInsertError(row, up)]
                    /\ UNCHANGED upload_sessions
               ELSE /\ upload_sessions' = upload_sessions \cup {row}
                    /\ job' = [started EXCEPT !.pc = "uploading", !.session = row.id]
            /\ UNCHANGED <<storeVars, gestureVars, clientVars, feedVars, feedbackVars>>

\* router.post('/directory') up to the end of createUploadSession; n is the number
\* of video files the directory holds
postDirectory ==
    \E path \in DirectoryPaths, n \in 0..MaxFiles, userId \in UploadUserIds, up \in BOOLEAN :
        LET uid == IF userId = Absent THEN MOCK_USER_ID ELSE userId
            row == NewUploadSession(uid, 0)
            started == [NoJob EXCEPT !.route = "directory", !.userId = uid,
                                     !.directoryPath = path,
                                     !.files = IF path = "videos" THEN n ELSE 0]
        IN  /\ job.pc = "idle"
            /\ IF ~Truthy(path)
               THEN /\ job' = [started EXCEPT !.pc = "done", !.status = 400]
                    /\ UNCHANGED upload_sessions
               ELSE IF SessionInsertError(row, up) # "none"
               THEN /\ job' = [started EXCEPT !.pc = "done", !.status = 500,
                                              !.error = SessionInsertError(row, up)]
                    /\ UNCHANGED upload_sessions
               ELSE /\ upload_sessions' = upload_sessions \cup {row}
                    /\ job' = [started EXCEPT !.pc = "reading", !.session = row.id]
            /\ UNCHANGED <<storeVars, gestureVars, clientVars, feedVars, feedbackVars>>

\* gcsService.uploadFromDirectory: fs.readdirSync throws on a path it cannot read
uploadFromDirectory ==
    /\ job.pc = "reading"
    /\ job' = IF job.directoryPath = "missing" THEN Answered(500, "unreadable")
              ELSE IF job.files = 0
              THEN [job EXCEPT !.pc = AfterUploads(job.route, job.uploadResults)]
              ELSE [job EXCEPT !.pc = "uploading"]
    /\ UNCHANGED upload_sessions
    /\ UNCHANGED <<storeVars, gestureVars, clientVars, feedVars, feedbackVars>>

\* one turn of uploadVideoBatch's loop: uploadVideo(files[i]) returns or throws
uploadVideo ==
    \E ok \in BOOLEAN :
        LET i == totalUploaded(job.uploadResults) + totalFailedUploads(job.uploadResults) + 1
            results == IF ok
                       THEN [job.uploadResults EXCEPT !.successful = Append(@, i)]
                       ELSE [job.uploadResults EXCEPT !.failed = Append(@, i)]
        IN  /\ job.pc = "uploading"
            /\ job' = [job EXCEPT !.uploadResults = results,
                                  !.pc = IF i = job.files
                                         THEN AfterUploads(job.route, results)
                                         ELSE "uploading"]
            /\ UNCHANGED upload_sessions
            /\ UNCHANGED <<storeVars, gestureVars, clientVars, feedVars, feedbackVars>>

\* the directory route's updateUploadSession(total_files)
countFiles ==
    \E up \in BOOLEAN :
      LET updates == [total_files |-> totalUploaded(job.uploadResults)
                                      + totalFailedUploads(job.uploadResults)]
          err == SessionUpdateError(updates, up)
      IN
        /\ job.pc = "counting"
        /\ IF err # "none"
           THEN /\ job' = Answered(500, err)
                /\ UNCHANGED upload_sessions
           ELSE /\ upload_sessions' = updateUploadSession(upload_sessions, job.session,
                                                          updates)
                /\ job' = [job EXCEPT !.pc = IF totalUploaded(job.uploadResults) = 0
                                             THEN "finishing" ELSE "recording"]
        /\ UNCHANGED <<storeVars, gestureVars, clientVars, feedVars, feedbackVars>>

\* one turn of batchCreateVideos' loop: createVideo(result.result, userId) returns
\* the row or throws
batchCreateVideos ==
    \E up \in BOOLEAN :
        LET k == totalCreated(job.dbResults) + Len(job.dbResults.failed) + 1
            file == job.uploadResults.successful[k]
            db == IF up
                  THEN [job.dbResults EXCEPT !.successful = Append(@, file)]
                  ELSE [job.dbResults EXCEPT !.failed = Append(@, file)]
        IN  /\ job.pc = "recording"
            /\ IF up
               THEN \E id \in VideoIds, tick \in {0, 1} :
                        /\ id \notin {r.id : r \in public_videos}
                        /\ now' = now + tick
                        /\ public_videos' = public_videos \cup
                               {[id |-> id, created_at |-> now + tick, is_active |-> TRUE,
                                 title |-> ORIGINAL_TITLE]}
                        /\ writes' = writes + 1
                        /\ page' = Stale(page)
               ELSE UNCHANGED <<public_videos, now, writes, page>>
            /\ job' = [job EXCEPT !.dbResults = db,
                                  !.pc = IF k = totalUploaded(job.uploadResults)
                                         THEN "finishing" ELSE "recording"]
            /\ UNCHANGED <<upload_sessions, isLoading, error, nextRequested>>
            /\ UNCHANGED <<storeVars, gestureVars, clientVars, feedbackVars>>

\* the final updateUploadSession and the answer
finishUpload ==
    \E up \in BOOLEAN :
      LET updates == FinalUpdate(job.dbResults, job.uploadResults)
          err == SessionUpdateError(updates, up)
      IN
        /\ job.pc = "finishing"
        /\ IF err # "none"
           THEN /\ job' = Answered(500, err)
                /\ UNCHANGED upload_sessions
           ELSE /\ upload_sessions' = updateUploadSession(upload_sessions, job.session,
                                                          updates)
                /\ job' = Answered(200, "none")
        /\ UNCHANGED <<storeVars, gestureVars, clientVars, feedVars, feedbackVars>>

UploadNext ==
    \/ postBatch
    \/ postDirectory
    \/ uploadFromDirectory
    \/ uploadVideo
    \/ countFiles
    \/ batchCreateVideos
    \/ finishUpload

\* every step of a request that has begun is taken in the end: the server runs
\* the handler to its answer
UploadFairness ==
    /\ WF_vars(uploadFromDirectory)
    /\ WF_vars(uploadVideo)
    /\ WF_vars(countFiles)
    /\ WF_vars(batchCreateVideos)
    /\ WF_vars(finishUpload)

-----------------------------------------------------------------------------
(* Specifications *)

Init == StoreInit /\ GestureIdle /\ ClientIdle /\ FeedIdle /\ FeedbackIdle /\ UploadIdle

Next == StoreNext

Spec == Init /\ [][Next]_vars

ClassifyInit == StoreInitial /\ GestureInit /\ ClientIdle /\ FeedIdle /\ FeedbackIdle /\ UploadIdle

SpecClassify == ClassifyInit /\ [][classifyTouch]_vars

CadenceStart ==
    /\ StoreInitial /\ GestureIdle /\ FeedIdle /\ FeedbackIdle /\ UploadIdle
    /\ \E n \in {CADENCE_10, CADENCE_5} : ClientInit(n, ServedFeed)

SpecCadence == CadenceStart /\ [][CadenceNext]_vars

ClientStart ==
    /\ StoreInitial /\ GestureIdle /\ FeedIdle /\ FeedbackIdle /\ UploadIdle
    /\ ClientInit(CADENCE_5, MockFeed)

SpecClient == ClientStart /\ [][ClientNext]_vars

FeedStart == StoreInitial /\ GestureIdle /\ ClientIdle /\ FeedInit /\ FeedbackIdle /\ UploadIdle

SpecFeed == FeedStart /\ [][FeedNext]_vars

CursorStart ==
    /\ StoreInitial /\ GestureIdle /\ FeedMounting /\ FeedbackIdle /\ UploadIdle
    /\ ClientInit(CADENCE_5, <<>>)

SpecCursor == CursorStart /\ [][CursorNext]_vars

\* the client session is signed in or anonymous
FeedbackStart ==
    /\ StoreInit /\ GestureIdle /\ FeedIdle /\ FeedbackIdle /\ UploadIdle
    /\ ClientInit(CADENCE_5, ServedFeed)

SpecFeedback == FeedbackStart /\ [][FeedbackNext]_vars

SpecRapid == ClientStart /\ [][RapidNext]_vars

\* the client session is signed in or a guest, in either Home
SessionStart ==
    /\ StoreInit /\ GestureIdle /\ FeedIdle /\ FeedbackIdle /\ UploadIdle
    /\ \E n \in {CADENCE_10, CADENCE_5} : ClientInit(n, ServedFeed)

SpecSession == SessionStart /\ [][SessionNext]_vars

UploadStart ==
    StoreInitial /\ GestureIdle /\ ClientIdle /\ FeedInit /\ FeedbackIdle /\ UploadIdle

SpecUpload == UploadStart /\ [][UploadNext]_vars

SpecUploadLive == SpecUpload /\ UploadFairness

ConcurrentStart == StoreInFlight /\ GestureIdle /\ ClientIdle /\ FeedIdle /\ FeedbackIdle /\ UploadIdle

SpecConcurrent == ConcurrentStart /\ [][ConcurrentNext]_vars

-----------------------------------------------------------------------------
(* Claims about the interaction store, checked under Spec *)

\* a request that names a user, a video and one of the enumerated types
WellFormed(req) == ~MissingField(req) /\ req.type \in InteractionTypes

\* the step is the server answering a request
Handled == clock' = clock + 1

\* the rows stored for the triple of req: its acting identity, video and type
RowsOf(rows, req) ==
    {r \in rows : /\ r.actor = ActingIdentity(req.session)
                  /\ r.video_id = req.videoId
                  /\ r.interaction_type = req.type}

\* C1: a second record for a triple that already has a row with another
\* payload, answered by a reachable store, leaves exactly one row for the
\* triple, and that row holds the payload and the timestamp of the second call.
C1_SecondRecordOverwrites ==
    [][ ( /\ Handled
          /\ WellFormed(last'.req)
          /\ last'.dbError # "unreachable"
          /\ \E r \in RowsOf(user_interactions, last'.req) :
                r.interaction_data # PayloadOf(last'.req) )
        => /\ Cardinality(RowsOf(user_interactions', last'.req)) = 1
           /\ \A r \in RowsOf(user_interactions', last'.req) :
                /\ r.interaction_data = PayloadOf(last'.req)
                /\ r.created_at = last'.at ]_vars

\* C2: the table never holds two rows for one (acting identity, video, type).
C2_OneRowPerTriple ==
    \A r1, r2 \in user_interactions :
        ( /\ r1.actor = r2.actor
          /\ r1.video_id = r2.video_id
          /\ r1.interaction_type = r2.interaction_type ) => r1 = r2

\* C2 witness: a repeated record was refused by the table and one row stands.
C2_Witness ==
    /\ last.dbError = "unique"
    /\ Cardinality(RowsOf(user_interactions, last.req)) = 1
    /\ Cardinality(user_interactions) >= 2

\* C3: all identity resolutions of a session without an authenticated user
\* give one and the same anonymous id.
C3_AnonymousIdStable ==
    \A s \in Sessions : user[s] = NoUser => Cardinality(resolved[s]) <= 1

\* C9: a request without videoId or type, or with a type outside the enumerated
\* set, is answered with an error and leaves the table as it was (stated for
\* the steps in which the store itself reports no error).
C9_InvalidInputRejected ==
    [][ ( /\ Handled
          /\ last'.dbError = "none"
          /\ \/ ~Truthy(last'.req.videoId)
             \/ ~Truthy(last'.req.type)
             \/ last'.req.type \notin InteractionTypes )
        => /\ last'.status = 400
           /\ ~last'.success
           /\ user_interactions' = user_interactions ]_vars

\* C10: when the store fails on a well-formed request, the caller is told
\* success with no error status, and the table is as it was.
C10_StoreFailureReportsSuccess ==
    [][ ( /\ Handled
          /\ WellFormed(last'.req)
          /\ last'.dbError # "none" )
        => /\ last'.success
           /\ last'.status = 200
           /\ user_interactions' = user_interactions ]_vars

\* C10 witness: the store was unreachable for a well-formed request of a
\* registered user, success was reported, and an earlier row is still there.
C10_Witness ==
    /\ WellFormed(last.req)
    /\ last.dbError = "unreachable"
    /\ last.success /\ last.status = 200 /\ last.fallback
    /\ user_interactions # {}

-----------------------------------------------------------------------------
(* Claims about the cadence tracker, checked under SpecCadence *)

\* C4: with video-consumed events as the only input to the counter, the prompt
\* has been raised at exactly the events whose number is a multiple of the
\* cadence: at N, at none of N+1..2N-1, again at 2N.
C4_RaisedEveryNth ==
    raisedAt = {k \in 1..events : k % cadence = 0}

\* C4 witness: with cadence 10, twenty-one videos have been consumed and the
\* prompt was raised at the 10th and at the 20th.
C4_Witness ==
    /\ cadence = CADENCE_10
    /\ events = 2 * CADENCE_10 + 1
    /\ raisedAt = {CADENCE_10, 2 * CADENCE_10}

\* C5: whenever the tracker fires, the video attached to the prompt is the
\* video of the event that made it fire (the N-th consumed in the window).
C5_PromptTargetsNthVideo ==
    [][ raisedAt' # raisedAt => feedbackVideo' = trigger' ]_vars

-----------------------------------------------------------------------------
(* Claims about the end-to-end scenario, checked under SpecClient *)

\* C6: after like on video-1, dislike on video-2 and next on video-3, video-4
\* and video-5, once every fetch and timer has run, exactly the reactions
\* (video-1, like) and (video-2, dislike) were sent and the prompt is shown
\* for video-5.
C6_ScenarioPrompts ==
    ( /\ scenario = Len(Scenario)
      /\ pending = EmptyBag
      /\ timers = <<>> )
    => /\ scenarioPosts = { <<"video-1", "like">>, <<"video-2", "dislike">> }
       /\ showFeedback
       /\ feedbackVideo = "video-5"

-----------------------------------------------------------------------------
(* Claims about the classifier, checked under SpecClassify *)

Classified == emitted \notin {"idle", "touching"}

\* C7 as stated: for |dx| >= T and |dx| >= |dy|, boundary and tie included,
\* like iff dx > 0 and dislike iff dx < 0.
C7_HorizontalInclusive ==
    ( /\ Classified
      /\ Abs(touch.dx) >= SWIPE_THRESHOLD
      /\ Abs(touch.dx) >= Abs(touch.dy) )
    => /\ (emitted = "right") <=> (touch.dx > 0)
       /\ (emitted = "left") <=> (touch.dx < 0)

\* C7 amended: for |dx| > T and |dx| > |dy| like iff dx > 0 and dislike iff
\* dx < 0; on the boundary |dx| = T and on the tie |dx| = |dy| the classifier
\* emits neither like nor dislike.
C7_HorizontalStrict ==
    Classified =>
      /\ ( Abs(touch.dx) > SWIPE_THRESHOLD /\ Abs(touch.dx) > Abs(touch.dy) )
           => /\ (emitted = "right") <=> (touch.dx > 0)
              /\ (emitted = "left") <=> (touch.dx < 0)
      /\ ( Abs(touch.dx) = SWIPE_THRESHOLD \/ Abs(touch.dx) = Abs(touch.dy) )
           => emitted \notin {"right", "left"}

\* C7 witness: a gesture just past the threshold and just past the diagonal
\* was classified as a like.
C7_Witness ==
    /\ touch = [dx |-> SWIPE_THRESHOLD + 1, dy |-> -SWIPE_THRESHOLD]
    /\ emitted = "right"

\* C8: a gesture that is neither like nor dislike and goes up by more than
\* T = 50 is classified as next.
C8_UpUsesSameThreshold ==
    ( /\ Classified
      /\ emitted \notin {"right", "left"}
      /\ touch.dy < -SWIPE_THRESHOLD )
    => emitted = "up"

-----------------------------------------------------------------------------
(* Further claims about the interaction route, checked under Spec *)

\* C11: a request that names a video and an enumerated type but no user id
\* is accepted: the answer has status 200 and success = true.
C11_AnonymousCallerAccepted ==
    [][ ( /\ Handled
          /\ ~Truthy(last'.req.userId)
          /\ Truthy(last'.req.videoId)
          /\ last'.req.type \in InteractionTypes )
        => /\ last'.status = 200
           /\ last'.success ]_vars

-----------------------------------------------------------------------------
(* Claims about the feed, checked under SpecFeed *)

\* the row of public.videos with this id
VideoRow(id) == CHOOSE r \in public_videos : r.id = id

\* the answer was given by the database, and no statement has run since
FromStore(answer) == answer.status = 200 /\ ~answer.dbError /\ answer.fresh

\* newest first, and among equal creation times the greater id first
InFeedOrder(ids) ==
    \A i, j \in 1..Len(ids) :
        i < j => \/ VideoRow(ids[i]).created_at > VideoRow(ids[j]).created_at
                 \/ /\ VideoRow(ids[i]).created_at = VideoRow(ids[j]).created_at
                    /\ IdRank(ids[i]) > IdRank(ids[j])

\* C12: a page answered by the database is ordered by descending creation
\* time with ties broken by descending id, and when the answer before it was
\* for the same offset and limit with no insert, update or delete in between,
\* the two pages are the same sequence.
C12_FetchPageStable ==
    [][ ( page' # page /\ FromStore(page') )
        => /\ InFeedOrder(page'.videos)
           /\ ( /\ FromStore(page)
                /\ page.offset = page'.offset
                /\ page.limit = page'.limit ) => page'.videos = page.videos ]_vars

\* C13: a page answered by the database, while no statement has run since,
\* holds only videos whose row is active.
C13_NoSoftDeletedInPage ==
    FromStore(page) =>
        \A i \in 1..Len(page.videos) : VideoRow(page.videos[i]).is_active

\* C13 witness: after uploads and a soft delete, the first page was answered
\* short of its limit with a video in it, and a soft-deleted row is in the table.
C13_Witness ==
    /\ FromStore(page)
    /\ page.offset = 0
    /\ page.videos # <<>>
    /\ Len(page.videos) < page.limit
    /\ \E r \in public_videos : ~r.is_active

\* C14: an answer given while the database fails has status 200, is flagged
\* as fallback, and holds at least one placeholder video, whatever the offset
\* and the limit.
C14_DegradedFeedNonEmpty ==
    page.dbError =>
        /\ page.status = 200
        /\ page.success
        /\ page.fallback
        /\ Len(page.videos) >= 1
        /\ \A i \in 1..Len(page.videos) :
              \E k \in 1..Len(MockFeed) : MockFeed[k] = page.videos[i]

-----------------------------------------------------------------------------
(* Claims about feedback, checked under SpecFeedback *)

AllEmpty(form) == form.whatDidYouSee = "" /\ form.whyDidYouReact = ""

\* the step is FeedbackModal.handleSubmit deciding on the form
Decided == submission' # submission /\ submission' \in {"ValidationError", "sent"}

\* the step is the server answering the feedback request
FeedbackHandled == feedbackReply = NoReply /\ feedbackReply' # NoReply

\* the step is the modal's fetch settling
Settled == feedbackNet # NoFeedbackRequest /\ feedbackNet' = NoFeedbackRequest

\* the step is the user pressing Skip
Skipped == submission' = "skip" /\ (submission # "skip" \/ (showFeedback /\ ~showFeedback'))

\* the step raises the prompt
Raised == ~showFeedback /\ showFeedback'

\* the number of the event at which the prompt was raised last
LastRaise == CHOOSE k \in raisedAt : \A m \in raisedAt : m <= k

\* C15: a submission with no answer fails validation, sends nothing and stores
\* nothing; a submission with at least one answer is accepted, and the server,
\* with the database reachable, stores a record for it.
C15_FeedbackValidation ==
    [][ /\ Decided =>
            /\ AllEmpty(feedback) => /\ submission' = "ValidationError"
                                     /\ feedbackNet' = feedbackNet
                                     /\ public_feedback' = public_feedback
            /\ ~AllEmpty(feedback) => submission' = "sent"
        /\ (FeedbackHandled /\ feedbackReply'.dbError # "unreachable")
            => public_feedback' # public_feedback ]_vars

\* C16: when the fetch of a valid submission settles, by a 2xx answer, by
\* another answer or by a network failure, the prompt is closed and its video
\* cleared; the prompt is raised next only after a further N events.
C16_SubmitClosesPrompt ==
    [][ /\ Settled => /\ submission' \in FetchOutcomes
                      /\ ~showFeedback'
                      /\ feedbackVideo' = NoVideo
        /\ (Raised /\ submission \in FetchOutcomes)
            => events' >= LastRaise + cadence ]_vars

\* C16 witness: a submission made at the first prompt ended in a network
\* failure, and the prompt is closed with no video attached.
C16_Witness ==
    /\ submission = "network"
    /\ raisedAt = {CADENCE_5}
    /\ ~showFeedback
    /\ feedbackVideo = NoVideo
    /\ feedbackNet = NoFeedbackRequest

\* C17: Skip closes the prompt, sends no feedback request and stores no
\* record; after Skip the prompt is raised next only after a further N events.
C17_SkipClosesWithoutRecord ==
    [][ /\ Skipped => /\ ~showFeedback'
                      /\ feedbackNet' = feedbackNet
                      /\ public_feedback' = public_feedback
        /\ (Raised /\ submission = "skip")
            => events' >= LastRaise + cadence ]_vars

\* C17 witness: the prompt raised at the 5th event was skipped, nothing was
\* sent or stored, and the prompt is shown again at the 10th event.
C17_Witness ==
    /\ submission = "skip"
    /\ raisedAt = {CADENCE_5, 2 * CADENCE_5}
    /\ events = 2 * CADENCE_5
    /\ showFeedback
    /\ feedbackNet = NoFeedbackRequest
    /\ public_feedback = {}

\* C18: when the server has handled a feedback request for a video with the
\* database reachable, a record is stored under the submitter's identity: the user's id
\* when the session is signed in, an anonymous id of the session otherwise.
C18_FeedbackUnderSubmitter ==
    [][ ( /\ FeedbackHandled
          /\ feedbackNet.videoId # NoVideo
          /\ feedbackReply'.status = 200
          /\ feedbackReply'.dbError # "unreachable" )
        => \E r \in public_feedback' :
              /\ r.video_id = feedbackNet.videoId
              /\ IF user[feedbackNet.session] # NoUser
                 THEN r.user_id = user[feedbackNet.session]
                 ELSE r.user_id \in AnonIds ]_vars

-----------------------------------------------------------------------------
(* Claims about the feed cursor, checked under SpecCursor *)

Buffered == {videos[i] : i \in 1..Len(videos)}

\* the step is goToNextVideo called on the last buffered video for the first time
AdvancedAtEnd == ~nextRequested /\ nextRequested'

\* the buffer is a full page answered by the database, and an active video
\* outside it comes after it in the order of the feed
FurtherActive ==
    /\ ~error /\ ~page.fallback /\ page.hasMore
    /\ \E r \in ActiveOnly(public_videos) :
          /\ r.id \notin Buffered
          /\ \A b \in Buffered : r.created_at <= VideoRow(b).created_at

\* C19: when the user advances on the last buffered video while the store
\* holds further active videos, the next page is being fetched or a following
\* video has become current.
C19_AdvanceFetchesNextPage ==
    [][ (AdvancedAtEnd /\ FurtherActive)
        => \/ isLoading'
           \/ Len(videos') > Len(videos)
           \/ currentVideoIndex' > currentVideoIndex ]_vars

\* C20: when the user advances on the last buffered video while every active
\* video of the store is in the buffer, the cursor is at the end of the feed:
\* there is no current video.
C20_AdvanceReachesEndOfFeed ==
    [][ (AdvancedAtEnd /\ ~error /\ ~page.fallback
            /\ {r.id : r \in ActiveOnly(public_videos)} \subseteq Buffered)
        => currentVideoIndex' >= Len(videos') ]_vars

-----------------------------------------------------------------------------
(* Claims about identity resolution and concurrent records *)

\* C21: a record whose user id is given but is not a UUID, answered by a
\* reachable store, is written as a row with a null user id; the id is not
\* replaced by another identifier.  Checked under Spec.
C21_NonUuidStoredAsNull ==
    [][ ( /\ Handled
          /\ WellFormed(last'.req)
          /\ ~isValidUUID(last'.req.userId)
          /\ last'.dbError # "unreachable" )
        => /\ last'.finalUserId = NoUser
           /\ \E r \in user_interactions' : r.id = last'.at /\ r.user_id = NoUser ]_vars

\* the step handles the second of two requests that were in flight together,
\* and recordInteraction was called for both
SecondOfTwo ==
    /\ Handled
    /\ last.req # NoRequest
    /\ ~MissingField(last.req)
    /\ ~MissingField(last'.req)

\* C22: two requests of one anonymous session that are in flight at the same
\* time obtain the same anonymous id.  Checked under SpecConcurrent.
C22_ConcurrentSameAnonymousId ==
    [][ ( /\ SecondOfTwo
          /\ last'.req.session = last.req.session
          /\ user[last'.req.session] = NoUser )
        => last'.finalUserId = last.finalUserId ]_vars

\* C23: two requests for one (identity, video, type) with different payloads
\* that are in flight at the same time, handled by a reachable store, leave
\* exactly one row, holding the payload of the request handled last.
\* Checked under SpecConcurrent.
C23_ConcurrentLastWriterWins ==
    [][ ( /\ SecondOfTwo
          /\ WellFormed(last'.req)
          /\ ActingIdentity(last'.req.session) = ActingIdentity(last.req.session)
          /\ last'.req.videoId = last.req.videoId
          /\ last'.req.type = last.req.type
          /\ PayloadOf(last'.req) # PayloadOf(last.req)
          /\ last.dbError # "unreachable"
          /\ last'.dbError # "unreachable" )
        => /\ Cardinality(RowsOf(user_interactions', last'.req)) = 1
           /\ \A r \in RowsOf(user_interactions', last'.req) :
                r.interaction_data = PayloadOf(last'.req) ]_vars

-----------------------------------------------------------------------------
(* Further claims about the client *)

\* the step is a deferred advance running
TimerFires == timers # <<>> /\ timers' = Tail(timers)

\* C24: the advance deferred by a like or dislike on the video at index k
\* leaves the position at most at k + 1, also when a second like or dislike
\* was made on that video before the advance ran: two gestures on one video
\* move the feed forward by one video.  Checked under SpecRapid.
C24_NoDoubleAdvance ==
    [][ TimerFires => currentVideoIndex' <= Head(timers) + 1 ]_vars

\* C25: whenever the prompt is visible, the video attached to it is not null
\* and is the video of the handleVideoWatched call that brought videosWatched
\* to a multiple of N.  Checked under SpecCadence.
C25_VisiblePromptHasTrigger ==
    showFeedback => /\ feedbackVideo # NoVideo
                    /\ feedbackVideo = trigger

\* C26: each video adds at most one to videosWatched: the counter never
\* exceeds the number of videos shown so far, the current one included.
\* Checked under SpecCadence.
C26_OneCountPerVideo ==
    videosWatched <= currentVideoIndex + 1

\* C27: videosWatched changes only by +1 in a step that is a video-consumed
\* event, or to 0 at logout, and after every step it equals the number of
\* video-consumed events of the session.  Checked under SpecSession.
C27_CounterCountsEvents ==
    [][ /\ videosWatched' # videosWatched
            => \/ videosWatched' = videosWatched + 1 /\ events' = events + 1
               \/ videosWatched' = 0 /\ SignedIn /\ ~SignedIn'
        /\ videosWatched' = events' ]_vars

-----------------------------------------------------------------------------
(* Further claims about the feed, checked under SpecFeed *)

\* C28: in a page answered by the database, hasMore is true exactly when an
\* active video exists at a position >= offset + limit of the feed order, that
\* is when the table holds more than offset + limit active videos.
C28_HasMoreIffFurtherVideo ==
    FromStore(page) =>
        (page.hasMore <=> Cardinality(ActiveOnly(public_videos)) > page.offset + page.limit)

-----------------------------------------------------------------------------
(* Claims about bulk upload *)

\* the files named in a list of results
FilesIn(seq) == {seq[i] : i \in 1..Len(seq)}

\* the session row of the request being served
SessionRow == CHOOSE r \in upload_sessions : r.id = job.session

\* C29: when a bulk upload request has been answered, with the database
\* reachable and the directory readable all along, its session row has
\* uploaded_files + failed_files equal to the number of files submitted,
\* uploaded_files counts the files whose record was created and failed_files
\* all the others, each file in exactly one of the two, and the status is
\* completed exactly when failed_files = 0.  Checked under SpecUpload.
C29_BatchAccounting ==
    ( /\ job.pc = "done"
      /\ job.session # NoSession
      /\ job.error \notin {"unreachable", "unreadable"} )
    => LET r == SessionRow
           created == FilesIn(job.dbResults.successful)
           failed == FilesIn(job.dbResults.failed) \cup FilesIn(job.uploadResults.failed)
       IN  /\ r.uploaded_files + r.failed_files = job.files
           /\ r.uploaded_files = Cardinality(created)
           /\ r.failed_files = Cardinality(failed)
           /\ created \cap failed = {}
           /\ created \cup failed = 1..job.files
           /\ r.status = "completed" <=> r.failed_files = 0

\* C30: an upload session that is in_progress leaves that status in the end,
\* whatever throws while the request is served.  Checked under SpecUploadLive.
C30_SessionLeavesInProgress ==
    (\E r \in upload_sessions : r.status = "in_progress")
        ~> (\A r \in upload_sessions : r.status # "in_progress")

====
